---------------------------- MODULE Spec2Model ----------------------------
(***************************************************************************)
(* FigSense: the AI figure classifier (src/ai_classifier.py) and the       *)
(* Streamlit front end (src/app.py) as a state machine.                    *)
(*                                                                         *)
(* Python values that can come out of json.loads are modelled as tagged    *)
(* records [t, n, s]: t is the Python type, n the number (confidences are  *)
(* kept in hundredths, 0.3 is 30) and s the string.  A dictionary key that *)
(* is absent is the value Missing.                                         *)
(***************************************************************************)
EXTENDS Integers, Sequences, FiniteSets, TLC

\* ------------------------------------------------------------------ bounds
\* The largest number of figures an extracted document holds.
MaxFigures == 2
\* The largest number of classify_figure calls followed on one classifier.
MaxCalls == 3

\* --------------------------------------------------------- Python values
Num(x) == [t |-> "num", n |-> x, s |-> ""]
Str(x) == [t |-> "str", n |-> 0, s |-> x]
None == [t |-> "none", n |-> 0, s |-> ""]
Missing == [t |-> "missing", n |-> 0, s |-> ""]

\* dict.get(key, default): the default only when the key is absent; a key
\* that is present with the value null gives None.
DictGet(d, key, default) == IF d[key] = Missing THEN default ELSE d[key]

\* ------------------------------------------------- AIFigureClassifier data
\* The keys of self.figure_categories.
figure_categories ==
    { "bar_chart", "pie_chart", "line_graph", "scatter_plot", "histogram",
      "box_plot", "heatmap", "flowchart", "organizational_chart",
      "network_diagram", "scientific_diagram", "medical_diagram",
      "engineering_diagram", "map", "floor_plan", "timeline", "table",
      "infographic", "photograph", "screenshot", "logo", "chart_other",
      "diagram_other", "unknown" }

ResultKeys == {"classification", "confidence", "description", "details", "reasoning"}

\* _fallback_classification's returned dictionary.
FallbackRecord ==
    [ classification |-> Str("unknown"),
      confidence     |-> Num(30),
      description    |-> Str("Could not classify figure"),
      details        |-> Str("{}"),
      reasoning      |-> Str("AI classification failed, using fallback") ]

\* _fallback_classification: sets confidence_score to 0.3 and returns the
\* fallback dictionary.
FallbackClassification ==
    [ raised |-> FALSE, ret |-> FallbackRecord, score |-> Num(30) ]

\* What one call of classify_figure meets: the image cannot be encoded, the
\* remote call raises, the response text is empty, is not JSON, is JSON but
\* not an object, or is a JSON object obj.
ResponseKinds ==
    { "encode_error", "api_error", "empty_text", "invalid_json",
      "json_non_object", "json_object" }

NoObject ==
    [ type |-> Missing, confidence |-> Missing, description |-> Missing,
      details |-> Missing, reasoning |-> Missing ]

Failure(kind) == [ kind |-> kind, obj |-> NoObject ]

Object(type, confidence, rest) ==
    [ kind |-> "json_object",
      obj  |-> [ type |-> type, confidence |-> confidence, description |-> rest,
                 details |-> rest, reasoning |-> rest ] ]

\* The body of classify_figure's try block for one response, given the
\* confidence_score before the call: either an exception escapes the body
\* (exc) or the body returns ret having set confidence_score to score.
TryBody(resp, score) ==
    CASE resp.kind \in {"encode_error", "api_error", "invalid_json", "json_non_object"} ->
            [ exc |-> TRUE, ret |-> FallbackRecord, score |-> score ]
      [] resp.kind = "empty_text" ->
            [ exc |-> FALSE, ret |-> FallbackRecord, score |-> Num(30) ]
      [] OTHER ->
            LET c == DictGet(resp.obj, "confidence", Num(50)) IN
            [ exc |-> FALSE,
              ret |-> [ classification |-> DictGet(resp.obj, "type", Str("unknown")),
                        confidence     |-> c,
                        description    |-> DictGet(resp.obj, "description",
                                                   Str("No description available")),
                        details        |-> DictGet(resp.obj, "details", Str("{}")),
                        reasoning      |-> DictGet(resp.obj, "reasoning", Str("")) ],
              score |-> c ]

\* classify_figure without its except clause: the exception reaches the caller.
ClassifyFigureNoExcept(resp, score) ==
    LET b == TryBody(resp, score) IN
    [ raised |-> b.exc, ret |-> b.ret, score |-> b.score ]

\* classify_figure whose except clause returns the fallback dictionary
\* without going through _fallback_classification's confidence_score = 0.3.
ClassifyFigureStaleScore(resp, score) ==
    LET b == TryBody(resp, score) IN
    [ raised |-> FALSE, ret |-> b.ret, score |-> IF b.exc THEN score ELSE b.score ]

\* classify_figure: the try body, and `except Exception` answering with the
\* fallback.  [raised, ret, score]: whether an exception reaches the caller,
\* the returned dictionary, and confidence_score after the call.
ClassifyFigure(resp, score) ==
    LET b == TryBody(resp, score) IN
    IF b.exc THEN FallbackClassification
    ELSE [ raised |-> FALSE, ret |-> b.ret, score |-> b.score ]

\* get_confidence
GetConfidence(score) == score

\* --------------------------------------------------------------- documents
\* extract_figures' result (figure_extractor is outside src/): an ordered
\* sequence of {page >= 1, bbox, image}, ascending by page.  Figure k of a
\* document has its own raster buffer k and its own box.
Pages == 1..2

BBox(k) == <<10 * k, 10 * k, 10 * k + 5, 10 * k + 5>>

Figure(k, page) == [ page |-> page, bbox |-> BBox(k), image |-> k ]

PageSeqs(n) == { p \in [1..n -> Pages] : \A i \in 1..(n - 1) : p[i] <= p[i + 1] }

Documents ==
    UNION { { [k \in 1..n |-> Figure(k, p[k])] : p \in PageSeqs(n) } : n \in 0..MaxFigures }

\* What process_pdf meets up to extract_figures: writing the temporary copy
\* raises inside the with block (copied FALSE: the file is there, but
\* tmp_file_path was never bound), extract_figures or a constructor raises
\* after the copy was written, or extract_figures returns a document.
Extractions ==
    { [exc |-> TRUE, copied |-> FALSE, figs |-> <<>>],
      [exc |-> TRUE, copied |-> TRUE, figs |-> <<>>] }
    \cup { [exc |-> FALSE, copied |-> TRUE, figs |-> d] : d \in Documents }

\* The responses the remote model gives while figures are processed: a
\* failed call and a labelled answer; and, besides, an answer whose label
\* is null and whose confidence is absent.
LabelledResponses ==
    { Failure("api_error"), Object(Str("bar_chart"), Num(95), Str("text")) }

NullLabelResponses == LabelledResponses \cup { Object(None, Missing, Missing) }

URLs == {"u1"}
FileName == "paper.pdf"

\* The temporary files a handler writes: process_pdf's copy of the uploaded
\* bytes, and the file download_pdf_from_url returns.
TempCopy == "copy"
TempDownload == "download"

\* ------------------------------------------------------------ process_pdf
\* The dictionary process_pdf appends for figure i (0-based figure_id).
ResultRow(i, ret, fig) ==
    [ figure_id      |-> i,
      classification |-> ret.classification,
      confidence     |-> ret.confidence,
      description    |-> ret.description,
      details        |-> ret.details,
      reasoning      |-> ret.reasoning,
      page           |-> fig.page,
      bbox           |-> fig.bbox ]

\* process_pdf's loop giving up at the first figure whose classification
\* fell back, the figures after it left without a result.
RECURSIVE ClassifyLoopStopOnFailure(_, _, _, _, _, _)
ClassifyLoopStopOnFailure(figs, resps, i, score, results, calls) ==
    IF i > Len(figs)
    THEN [ exc |-> FALSE, results |-> results, calls |-> calls ]
    ELSE LET r == ClassifyFigure(resps[i], score) IN
         IF r.raised \/ r.ret = FallbackRecord
         THEN [ exc |-> r.raised, results |-> results,
                calls |-> Append(calls, [image |-> figs[i].image, resp |-> resps[i]]) ]
         ELSE ClassifyLoopStopOnFailure(figs, resps, i + 1, r.score,
                           Append(results, ResultRow(i - 1, r.ret, figs[i])),
                           Append(calls, [image |-> figs[i].image, resp |-> resps[i]]))

\* process_pdf's classification loop from figure i on, one classifier for
\* the whole run: an exception out of classify_figure ends the loop.
RECURSIVE ClassifyLoop(_, _, _, _, _, _)
ClassifyLoop(figs, resps, i, score, results, calls) ==
    IF i > Len(figs)
    THEN [ exc |-> FALSE, results |-> results, calls |-> calls ]
    ELSE LET r == ClassifyFigure(resps[i], score) IN
         IF r.raised
         THEN [ exc |-> TRUE, results |-> results,
                calls |-> Append(calls, [image |-> figs[i].image, resp |-> resps[i]]) ]
         ELSE ClassifyLoop(figs, resps, i + 1, r.score,
                           Append(results, ResultRow(i - 1, r.ret, figs[i])),
                           Append(calls, [image |-> figs[i].image, resp |-> resps[i]]))

\* batch_classify: classify_figure on each image in turn, the returned
\* dictionaries appended as they are.
RECURSIVE BatchClassify(_, _, _, _, _)
BatchClassify(images, resps, i, score, results) ==
    IF i > Len(images)
    THEN [ exc |-> FALSE, results |-> results, score |-> score ]
    ELSE LET r == ClassifyFigure(resps[i], score) IN
         IF r.raised
         THEN [ exc |-> TRUE, results |-> results, score |-> r.score ]
         ELSE BatchClassify(images, resps, i + 1, r.score, Append(results, r.ret))

\* The four st.session_state fields as one record.
SessionRecord(figs, results, complete, source) ==
    [ extracted_figures      |-> figs,
      classification_results |-> results,
      processing_complete    |-> complete,
      source_info            |-> source ]

\* process_pdf clearing the session's figures and results before it starts,
\* so that a run that ends early leaves them cleared.
ProcessPdfResetsFirst(s, ext, resps, source) ==
    LET cleared == SessionRecord(<<>>, <<>>, s.processing_complete, s.source_info) IN
    IF ext.exc
    THEN [ outcome |-> "error", session |-> cleared, messages |-> {"error"},
           calls |-> <<>>, rerun |-> FALSE ]
    ELSE IF ext.figs = <<>>
    THEN [ outcome |-> "no_figures", session |-> cleared, messages |-> {"warning"},
           calls |-> <<>>, rerun |-> FALSE ]
    ELSE LET loop == ClassifyLoop(ext.figs, resps, 1, Num(0), <<>>, <<>>) IN
         IF loop.exc
         THEN [ outcome |-> "error", session |-> cleared, messages |-> {"error"},
                calls |-> loop.calls, rerun |-> FALSE ]
         ELSE [ outcome |-> "success",
                session |-> SessionRecord(ext.figs, loop.results, TRUE, source),
                messages |-> {"success"}, calls |-> loop.calls, rerun |-> TRUE ]

\* process_pdf storing the extracted figures in the session as soon as
\* extract_figures returns, before it looks whether there are any.
ProcessPdfStoresFiguresFirst(s, ext, resps, source) ==
    LET stored == SessionRecord(ext.figs, s.classification_results,
                                s.processing_complete, s.source_info)
    IN
    IF ext.exc
    THEN [ outcome |-> "error", session |-> s, messages |-> {"error"},
           calls |-> <<>>, rerun |-> FALSE ]
    ELSE IF ext.figs = <<>>
    THEN [ outcome |-> "no_figures", session |-> stored, messages |-> {"warning"},
           calls |-> <<>>, rerun |-> FALSE ]
    ELSE LET loop == ClassifyLoop(ext.figs, resps, 1, Num(0), <<>>, <<>>) IN
         IF loop.exc
         THEN [ outcome |-> "error", session |-> stored, messages |-> {"error"},
                calls |-> loop.calls, rerun |-> FALSE ]
         ELSE [ outcome |-> "success",
                session |-> SessionRecord(ext.figs, loop.results, TRUE, source),
                messages |-> {"success"}, calls |-> loop.calls, rerun |-> TRUE ]

\* process_pdf on session state s: what the handler leaves behind.  rerun is
\* st.rerun() ending the script run.
ProcessPdf(s, ext, resps, source) ==
    IF ext.exc
    THEN [ outcome |-> "error", session |-> s, messages |-> {"error"},
           calls |-> <<>>, rerun |-> FALSE ]
    ELSE IF ext.figs = <<>>
    THEN [ outcome |-> "no_figures", session |-> s, messages |-> {"warning"},
           calls |-> <<>>, rerun |-> FALSE ]
    ELSE LET loop == ClassifyLoop(ext.figs, resps, 1, Num(0), <<>>, <<>>) IN
         IF loop.exc
         THEN [ outcome |-> "error", session |-> s, messages |-> {"error"},
                calls |-> loop.calls, rerun |-> FALSE ]
         ELSE [ outcome |-> "success",
                session |-> SessionRecord(ext.figs, loop.results, TRUE, source),
                messages |-> {"success"}, calls |-> loop.calls, rerun |-> TRUE ]

\* The temporary copy process_pdf leaves on disk when it ends.  os.unlink
\* runs before return on the no-figures path, before st.rerun() on the
\* success path, and in the except clause when tmp_file_path is bound; it
\* does not run when the exception came before tmp_file_path was bound.
ProcessPdfTempFiles(ext) ==
    IF ext.exc /\ ~ext.copied THEN {TempCopy} ELSE {}

\* The temporary files process_pdf_from_url leaves on disk when it ends:
\* what process_pdf leaves, and the downloaded file unless os.unlink after
\* process_pdf is reached.  It is not reached when reading the file raised
\* (the except clause only reports), nor when process_pdf ended in
\* st.rerun(), whose exception is not an Exception and passes both handlers.
ProcessPdfFromUrlTempFiles(fetch, copy_left, rerun) ==
    CASE fetch = "download_raises" -> {}
      [] fetch = "read_raises" -> {TempDownload}
      [] fetch = "fetched" -> IF rerun THEN copy_left \cup {TempDownload} ELSE copy_left

\* -------------------------------------------------------- display_results
\* Python's order on str, for the strings the model uses.
Lexicographic ==
    << "bar_chart", "box_plot", "chart_other", "diagram_other",
       "engineering_diagram", "floor_plan", "flowchart", "heatmap", "histogram",
       "infographic", "line_graph", "logo", "map", "medical_diagram",
       "network_diagram", "organizational_chart", "photograph", "pie_chart",
       "scatter_plot", "scientific_diagram", "screenshot", "table", "timeline",
       "unknown", "venn_diagram" >>

StrRank(x) == CHOOSE i \in 1..Len(Lexicographic) : Lexicographic[i] = x

\* a < b in Python for two values of the same orderable type.
PyLess(a, b) == IF a.t = "num" THEN a.n < b.n ELSE StrRank(a.s) < StrRank(b.s)

\* Whether sorting these keys raises TypeError: a comparison is made as soon
\* as there are two elements, and None, or a str against a number, has no
\* order.
Unorderable(keys, count) ==
    /\ count >= 2
    /\ \/ \E k \in keys : k.t \notin {"num", "str"}
       \/ \E k1, k2 \in keys : k1.t # k2.t

\* Whether x goes before y under display_results' sort key for sort_by:
\* page ascending, confidence descending (reverse=True), type ascending.
Before(sort_by, x, y) ==
    CASE sort_by = "Page Number" -> x.page < y.page
      [] sort_by = "Confidence" -> PyLess(y.confidence, x.confidence)
      [] sort_by = "Figure Type" -> PyLess(x.classification, y.classification)

\* list.sort is stable: x is put before the first element it goes before,
\* and after every element it ties with.
Insert(sorted, x, sort_by) ==
    LET later == { j \in 1..Len(sorted) : Before(sort_by, x, sorted[j]) }
        at == IF later = {} THEN Len(sorted) + 1
              ELSE CHOOSE j \in later : \A k \in later : j <= k
    IN SubSeq(sorted, 1, at - 1) \o <<x>> \o SubSeq(sorted, at, Len(sorted))

RECURSIVE SortFrom(_, _, _, _)
SortFrom(list, i, sorted, sort_by) ==
    IF i > Len(list) THEN sorted
    ELSE SortFrom(list, i + 1, Insert(sorted, list[i], sort_by), sort_by)

\* filtered.sort(key=...) for a sort_by choice.
SortedBy(list, sort_by) == SortFrom(list, 1, <<>>, sort_by)

SortChoices == {"Page Number", "Confidence", "Figure Type"}

All == Str("All")

\* create_zip_download: the summary rows and the image entries, each by its
\* position i in classifications; zip() pairs figures and classifications by
\* position.  A file name figure_page_{page}_{i}.png is <<page, i>>, and a
\* confidence formatted with .1% is its number of tenths of a percent.
CreateZipDownload(figures, classifications) ==
    LET n == IF Len(figures) < Len(classifications) THEN Len(figures)
             ELSE Len(classifications)
    IN [ made    |-> TRUE,
         summary |-> [ i \in 1..Len(classifications) |->
                         [ figure_id  |-> i - 1,
                           filename   |-> <<classifications[i].page, i - 1>>,
                           type       |-> classifications[i].classification,
                           confidence |-> classifications[i].confidence.n * 10,
                           page       |-> classifications[i].page ] ],
         images  |-> [ i \in 1..n |->
                         [ name  |-> <<classifications[i].page, i - 1>>,
                           image |-> figures[i].image ] ] ]

NoArchive == [ made |-> FALSE, summary |-> <<>>, images |-> <<>> ]

\* The cards of one display_results run: each result with figures[figure_id].
Cards(figures, filtered) ==
    [ i \in 1..Len(filtered) |->
        [ figure_data |-> figures[filtered[i].figure_id + 1], result |-> filtered[i] ] ]

\* [c for c in classifications if c['classification'] == filter_type], from
\* position i on.
RECURSIVE Filtered(_, _, _)
Filtered(list, type, i) ==
    IF i > Len(list) THEN <<>>
    ELSE (IF list[i].classification = type THEN <<list[i]>> ELSE <<>>)
         \o Filtered(list, type, i + 1)

\* One run of display_results on the session's figures and classifications
\* with the two selectboxes' stored values w and the ZIP button pressed or
\* not.  status is "results" or the line where the run ends with an
\* exception; classifications is the session's list after the run (sorted in
\* place when the filter is 'All', where `filtered` is the list itself).
\* The filter selectbox keeps its value while its options - 'All' and the
\* sorted types - are the ones it was last rendered with.
DisplayResults(figures, classifications, w, zip) ==
    LET types == { classifications[i].classification : i \in 1..Len(classifications) }
        stop(status, archive) ==
            [ status |-> status, cards |-> <<>>, classifications |-> classifications,
              widgets |-> w, archive |-> archive ]
    IN
    IF Len(classifications) = 0 THEN stop("ZeroDivisionError", NoArchive)
    ELSE IF \E i \in 1..Len(classifications) : classifications[i].confidence.t # "num"
    THEN stop("TypeError:average", NoArchive)
    ELSE
    LET archive == IF zip THEN CreateZipDownload(figures, classifications) ELSE NoArchive IN
    IF Unorderable(types, Cardinality(types)) THEN stop("TypeError:options", archive)
    ELSE
    LET filter_type == IF w.filter_options = types THEN w.filter_type ELSE All
        w2 == [ filter_type |-> filter_type, filter_options |-> types,
                sort_by |-> w.sort_by ]
        filtered == IF filter_type # All THEN Filtered(classifications, filter_type, 1)
                    ELSE classifications
        keys == IF w.sort_by = "Figure Type"
                THEN { filtered[i].classification : i \in 1..Len(filtered) }
                ELSE {}
    IN
    IF Unorderable(keys, Len(filtered))
    THEN [ status |-> "TypeError:sort", cards |-> <<>>,
           classifications |-> classifications, widgets |-> w2, archive |-> archive ]
    ELSE
    LET sorted == SortedBy(filtered, w.sort_by) IN
    [ status |-> "results",
      cards |-> Cards(figures, sorted),
      classifications |-> IF filter_type # All THEN classifications ELSE sorted,
      widgets |-> w2,
      archive |-> archive ]

\* main's content below the sidebar.
MainContent(s, w, zip) ==
    IF s.processing_complete /\ s.extracted_figures # <<>>
    THEN DisplayResults(s.extracted_figures, s.classification_results, w, zip)
    ELSE [ status |-> "welcome", cards |-> <<>>,
           classifications |-> s.classification_results, widgets |-> w,
           archive |-> NoArchive ]

\* ------------------------------------------------------------------ state
VARIABLES
    program,                \* which program runs: the Streamlit app, or a
                            \* caller using one AIFigureClassifier directly
    \* st.session_state
    extracted_figures, classification_results, processing_complete, source_info,
    widgets,                \* the stored values of the two selectboxes
    rerun_pending,          \* st.rerun() was called: the script runs again
    screen,                 \* what the last script run displayed
    archive,                \* the ZIP built in the last script run, if any
    run,                    \* the button handler of the last script run, and
                            \* the URL it called download_pdf_from_url with
    classified,             \* the classify_figure calls behind the session's results
    validated,              \* URLs validate_pdf_url has accepted
    \* one AIFigureClassifier
    confidence_score,
    ncalls,                 \* classify_figure calls so far
    last_call,              \* the latest classify_figure call
    last_batch              \* the batch_classify call, when it is the latest operation

session_vars == <<extracted_figures, classification_results, processing_complete, source_info>>
app_vars == <<session_vars, widgets, rerun_pending, screen, archive, run, classified,
              validated>>
classifier_vars == <<confidence_score, ncalls, last_call, last_batch>>
vars == <<program, app_vars, classifier_vars>>

Session ==
    SessionRecord(extracted_figures, classification_results, processing_complete,
                  source_info)

NoRun ==
    [ handler |-> "none", outcome |-> "none", messages |-> {}, calls |-> 0,
      download |-> "", files |-> {} ]
NoCall == [ made |-> FALSE, resp |-> Failure("api_error"), raised |-> FALSE,
            ret |-> FallbackRecord ]
NoBatch == [ made |-> FALSE, resps |-> <<>>, raised |-> FALSE, results |-> <<>> ]

\* The module-level session-state defaults of app.py, the selectboxes at
\* their first options, and AIFigureClassifier.__init__.
Init ==
    /\ program \in {"app", "classifier"}
    /\ extracted_figures = <<>>
    /\ classification_results = <<>>
    /\ processing_complete = FALSE
    /\ source_info = <<"PDF Document">>
    /\ widgets = [ filter_type |-> All, filter_options |-> {}, sort_by |-> "Page Number" ]
    /\ rerun_pending = FALSE
    /\ screen = [ status |-> "welcome", cards |-> <<>> ]
    /\ archive = NoArchive
    /\ run = NoRun
    /\ classified = <<>>
    /\ validated = {}
    /\ confidence_score = Num(0)
    /\ ncalls = 0
    /\ last_call = NoCall
    /\ last_batch = NoBatch

\* ------------------------------------------------------- classifier calls
TypeValues == { Str("bar_chart"), Str("unknown"), Str("venn_diagram"), None, Missing }
ConfidenceValues ==
    { Num(0), Num(95), Num(100), Num(150), Num(-10), Str("high"), None, Missing }

\* What the remote model, or the call to it, can answer.
Responses ==
    { Failure(k) : k \in ResponseKinds \ {"json_object"} }
    \cup { Object(t, c, r) : t \in TypeValues, c \in ConfidenceValues,
                             r \in {Missing, Str("text")} }

\* A caller calls classifier.classify_figure(image).
CallClassifyFigure ==
    /\ program = "classifier"
    /\ ncalls < MaxCalls
    /\ \E resp \in Responses :
         LET r == ClassifyFigure(resp, confidence_score) IN
         /\ confidence_score' = r.score
         /\ last_call' = [ made |-> TRUE, resp |-> resp, raised |-> r.raised, ret |-> r.ret ]
    /\ ncalls' = ncalls + 1
    /\ last_batch' = NoBatch
    /\ UNCHANGED <<program, app_vars>>

\* A caller calls classifier.batch_classify(images) with no progress callback.
CallBatchClassify ==
    /\ program = "classifier"
    /\ \E n \in 0..MaxFigures : \E resps \in [1..n -> NullLabelResponses] :
         LET b == BatchClassify([k \in 1..n |-> k], resps, 1, confidence_score, <<>>) IN
         /\ ncalls + n <= MaxCalls
         /\ ncalls' = ncalls + n
         /\ confidence_score' = b.score
         /\ last_batch' = [ made |-> TRUE, resps |-> resps, raised |-> b.exc,
                            results |-> b.results ]
         /\ last_call' = IF n = 0 THEN last_call
                         ELSE [ made |-> TRUE, resp |-> resps[n], raised |-> b.exc,
                                ret |-> IF Len(b.results) = n THEN b.results[n]
                                        ELSE FallbackRecord ]
    /\ UNCHANGED <<program, app_vars>>

\* ------------------------------------------------------- script runs (app)
\* The rest of a script run after a button handler h has returned: main's
\* content is drawn, or, after st.rerun(), the run ends there and the script
\* is queued to run again.
Finish(handler, download, files, h) ==
    /\ extracted_figures' = h.session.extracted_figures
    /\ processing_complete' = h.session.processing_complete
    /\ source_info' = h.session.source_info
    /\ run' = [ handler |-> handler, outcome |-> h.outcome, messages |-> h.messages,
                calls |-> Len(h.calls), download |-> download, files |-> files ]
    /\ archive' = NoArchive
    /\ IF h.rerun
       THEN /\ classification_results' = h.session.classification_results
            /\ classified' = h.calls
            /\ rerun_pending' = TRUE
            /\ screen' = [ status |-> "rerun", cards |-> <<>> ]
            /\ UNCHANGED widgets
       ELSE \E d \in { MainContent(h.session, widgets, FALSE) } :
            /\ classification_results' = d.classifications
            /\ rerun_pending' = FALSE
            /\ screen' = [ status |-> d.status, cards |-> d.cards ]
            /\ widgets' = d.widgets
            /\ UNCHANGED classified

\* "Process Uploaded PDF": process_pdf(uploaded_file).
ProcessUploadedPdf(answers) ==
    /\ program = "app"
    /\ ~rerun_pending
    /\ \E ext \in Extractions : \E resps \in [1..Len(ext.figs) -> answers] :
         \E h \in { ProcessPdf(Session, ext, resps, <<"Uploaded PDF: ", FileName>>) } :
           Finish("process_pdf", "", ProcessPdfTempFiles(ext), h)
    /\ UNCHANGED <<program, validated, classifier_vars>>

\* What get_file_info_from_url (pdf_downloader is outside src/) answers.
FileInfos == {"raises", "none", "not_pdf", "pdf"}

\* validate_pdf_url: [outcome, messages].
ValidatePdfUrl(info) ==
    CASE info = "raises" -> [ outcome |-> "validate_error", messages |-> {"error"} ]
      [] info = "none" -> [ outcome |-> "unreachable", messages |-> {"error"} ]
      [] info = "not_pdf" -> [ outcome |-> "not_pdf", messages |-> {"error"} ]
      [] info = "pdf" -> [ outcome |-> "valid", messages |-> {"success", "info"} ]

\* "Validate URL" with url in the text box: validate_pdf_url(url).
ValidateUrl ==
    /\ program = "app"
    /\ ~rerun_pending
    /\ \E url \in URLs, info \in FileInfos :
         LET v == ValidatePdfUrl(info) IN
         /\ validated' = IF v.outcome = "valid" THEN validated \cup {url} ELSE validated
         /\ Finish("validate_pdf_url", "", {},
                   [ outcome |-> v.outcome, session |-> Session, messages |-> v.messages,
                     calls |-> <<>>, rerun |-> FALSE ])
    /\ UNCHANGED <<program, classifier_vars>>

\* What download_pdf_from_url and the read of its file come to.
Fetches == {"download_raises", "read_raises", "fetched"}

\* process_pdf_from_url: download_pdf_from_url(url) is called first, and
\* process_pdf runs on what it fetched unless the download or the read
\* raised.
ProcessPdfFromUrlHandler(s, url, fetch, ext, resps) ==
    IF fetch = "fetched"
    THEN ProcessPdf(s, ext, resps, <<"PDF from URL: ", url>>)
    ELSE [ outcome |-> IF fetch = "read_raises" THEN "read_error" ELSE "download_error",
           session |-> s, messages |-> {"error"}, calls |-> <<>>, rerun |-> FALSE ]

\* "Process PDF from URL" with url in the text box.
ProcessPdfFromUrl(answers) ==
    /\ program = "app"
    /\ ~rerun_pending
    /\ \E url \in URLs :
         \/ \E fetch \in Fetches \ {"fetched"} :
            \E h \in { ProcessPdfFromUrlHandler(Session, url, fetch,
                                 [exc |-> TRUE, copied |-> FALSE, figs |-> <<>>], <<>>) } :
              Finish("process_pdf_from_url", url,
                     ProcessPdfFromUrlTempFiles(fetch, {}, FALSE), h)
         \/ \E ext \in Extractions :
            \E resps \in [1..Len(ext.figs) -> answers] :
            \E h \in { ProcessPdfFromUrlHandler(Session, url, "fetched", ext, resps) } :
              Finish("process_pdf_from_url", url,
                     ProcessPdfFromUrlTempFiles("fetched", ProcessPdfTempFiles(ext), h.rerun),
                     h)
    /\ UNCHANGED <<program, validated, classifier_vars>>

\* A script run with no button pressed and the selectboxes w: the run that
\* st.rerun() queued, or one a widget change starts.
Redraw(w, zip) ==
    \E d \in { MainContent(Session, w, zip) } :
    /\ classification_results' = d.classifications
    /\ screen' = [ status |-> d.status, cards |-> d.cards ]
    /\ widgets' = d.widgets
    /\ archive' = d.archive
    /\ rerun_pending' = FALSE
    /\ run' = NoRun
    /\ UNCHANGED <<program, extracted_figures, processing_complete, source_info,
                   classified, validated, classifier_vars>>

ScriptRerun ==
    /\ program = "app"
    /\ Redraw(widgets, FALSE)

\* The user picks another entry of "Filter by type:".
SelectFilter ==
    /\ program = "app"
    /\ ~rerun_pending
    /\ screen.status \in {"results", "TypeError:sort"}
    /\ \E f \in {All} \cup widgets.filter_options :
         /\ f # widgets.filter_type
         /\ Redraw([widgets EXCEPT !.filter_type = f], FALSE)

\* The user picks another entry of "Sort by:".
SelectSort ==
    /\ program = "app"
    /\ ~rerun_pending
    /\ screen.status \in {"results", "TypeError:sort"}
    /\ \E sort_by \in SortChoices :
         /\ sort_by # widgets.sort_by
         /\ Redraw([widgets EXCEPT !.sort_by = sort_by], FALSE)

\* "Download All Figures as ZIP".
DownloadZip ==
    /\ program = "app"
    /\ ~rerun_pending
    /\ screen.status \in {"results", "TypeError:options", "TypeError:sort"}
    /\ Redraw(widgets, TRUE)

\* Every step of either program, the remote model answering from `answers`
\* while the app processes a document.
Step(answers) ==
    \/ CallClassifyFigure
    \/ CallBatchClassify
    \/ ProcessUploadedPdf(answers)
    \/ ValidateUrl
    \/ ProcessPdfFromUrl(answers)
    \/ ScriptRerun
    \/ SelectFilter
    \/ SelectSort
    \/ DownloadZip

Next == Step(LabelledResponses)

Spec == Init /\ [][Next]_vars

\* The same program with the remote model also answering a null label.
NextNullLabels == Step(NullLabelResponses)

SpecNullLabels == Init /\ [][NextNullLabels]_vars

\* ---------------------------------------------------------------- claims
IsFailure(resp) == resp.kind # "json_object"

\* C1: classify_figure never raises to its caller; when encoding, the remote
\* call or JSON decoding fails, or the response text is empty, it returns a
\* complete record (classification, confidence, description, details,
\* reasoning) whose classification is 'unknown'.
C1_NeverRaises ==
    last_call.made =>
        /\ ~last_call.raised
        /\ DOMAIN last_call.ret = ResultKeys
        /\ IsFailure(last_call.resp) => last_call.ret.classification = Str("unknown")

C1_Witness ==
    /\ last_call.made
    /\ last_call.resp.kind = "invalid_json"
    /\ ~last_call.raised
    /\ last_call.ret.classification = Str("unknown")

\* C2: for every response of the remote model, the classification returned
\* by classify_figure is one of the keys of figure_categories.
C2_LabelInSet ==
    last_call.made =>
        /\ last_call.ret.classification.t = "str"
        /\ last_call.ret.classification.s \in figure_categories

\* C3: for every response of the remote model, the confidence returned by
\* classify_figure is a number in [0, 1].
C3_ConfidenceInRange ==
    last_call.made =>
        /\ last_call.ret.confidence.t = "num"
        /\ 0 <= last_call.ret.confidence.n
        /\ last_call.ret.confidence.n <= 100

\* Result i of a process_pdf run carries figure_id i and figure i's page and
\* bbox, is 'unknown' when that figure's classification failed, and otherwise
\* is what that figure's own response says.
ProcessedPerFigure ==
    (rerun_pending /\ run.outcome = "success") =>
        /\ Len(extracted_figures) > 0
        /\ Len(classification_results) = Len(extracted_figures)
        /\ Len(classified) = Len(extracted_figures)
        /\ run.calls = Len(extracted_figures)
        /\ \A i \in 1..Len(extracted_figures) :
             LET r == classification_results[i]
                 resp == classified[i].resp
             IN /\ classified[i].image = extracted_figures[i].image
                /\ r.figure_id = i - 1
                /\ r.page = extracted_figures[i].page
                /\ r.bbox = extracted_figures[i].bbox
                /\ IsFailure(resp) => /\ r.classification = Str("unknown")
                                      /\ r.confidence = Num(30)
                /\ ~IsFailure(resp) =>
                      /\ r.classification = DictGet(resp.obj, "type", Str("unknown"))
                      /\ r.confidence = DictGet(resp.obj, "confidence", Num(50))

\* Record i of a batch_classify call is classify_figure's record for image i:
\* 'unknown' when that call failed, otherwise what its own response says.
BatchPerImage ==
    last_batch.made =>
        /\ ~last_batch.raised
        /\ Len(last_batch.results) = Len(last_batch.resps)
        /\ \A i \in 1..Len(last_batch.resps) :
             LET r == last_batch.results[i]
                 resp == last_batch.resps[i]
             IN /\ i <= Len(last_batch.results)
                /\ IsFailure(resp) => r.classification = Str("unknown")
                /\ ~IsFailure(resp) =>
                      r.classification = DictGet(resp.obj, "type", Str("unknown"))

\* C4 as stated: process_pdf, and batch_classify as well, produce n results
\* in order, result i carrying figure_id i and the page and bbox of figure i,
\* a failed classification only making that figure's result 'unknown'.
C4_AsStated ==
    /\ ProcessedPerFigure
    /\ BatchPerImage
    /\ last_batch.made =>
         \A i \in 1..Len(last_batch.results) :
            {"figure_id", "page", "bbox"} \subseteq DOMAIN last_batch.results[i]

\* C4, amended: process_pdf produces n results in order, result i carrying
\* figure_id i and the page and bbox of figure i; batch_classify returns n
\* records in order, record i being classify_figure's five-key record for
\* image i with no figure_id, page or bbox; in both a failed classification
\* only makes that figure's result 'unknown'.
C4_PerFigure ==
    /\ ProcessedPerFigure
    /\ BatchPerImage
    /\ last_batch.made =>
         \A i \in 1..Len(last_batch.results) : DOMAIN last_batch.results[i] = ResultKeys

C4_Witness ==
    /\ rerun_pending
    /\ run.outcome = "success"
    /\ Len(extracted_figures) = 2
    /\ IsFailure(classified[1].resp)
    /\ classification_results[1].classification = Str("unknown")
    /\ classification_results[2].classification = Str("bar_chart")
    /\ classification_results[2].figure_id = 1

\* The classification result computed for the figure holding image img.
ResultOf(img) ==
    LET k == CHOOSE k \in 1..Len(extracted_figures) : extracted_figures[k].image = img
    IN CHOOSE j \in 1..Len(classification_results) :
          classification_results[j].figure_id = k - 1

\* C5: in the exported archive every figure image is stored under the file
\* name figure_summary.csv lists for it, paired with the type, confidence
\* and page computed for that same figure, one image entry per extracted
\* figure, whatever filter, sort and reruns came before.
C5_ArchivePairs ==
    archive.made =>
        /\ Len(archive.images) = Len(extracted_figures)
        /\ Len(archive.summary) = Len(extracted_figures)
        /\ \A e \in 1..Len(archive.images) :
             \E row \in 1..Len(archive.summary) :
                LET r == classification_results[ResultOf(archive.images[e].image)] IN
                /\ archive.summary[row].filename = archive.images[e].name
                /\ archive.summary[row].type = r.classification
                /\ archive.summary[row].confidence = r.confidence.n * 10
                /\ archive.summary[row].page = r.page

\* C6: when extract_figures returns an empty sequence, process_pdf reports
\* a warning and no error, classifies nothing, and leaves the four
\* session-state fields unchanged.
C6_EmptyExtraction ==
    [][ run'.outcome = "no_figures" =>
          /\ run'.messages = {"warning"}
          /\ run'.calls = 0
          /\ UNCHANGED session_vars ]_vars

C6_Witness ==
    /\ run.outcome = "no_figures"
    /\ run.messages = {"warning"}
    /\ processing_complete
    /\ Len(classification_results) = 2

\* C7: download_pdf_from_url is never called for a URL unless a validation
\* of that URL has succeeded before.
C7_DownloadAfterValidation == run.download # "" => run.download \in validated

\* display_results has run in the last script run.
Displaying == processing_complete /\ extracted_figures # <<>> /\ ~rerun_pending

\* C8: the displayed cards are exactly the results whose type matches the
\* filter (all of them for 'All'), in the order of the sort choice, each with
\* the figure its result was computed from.
C8_Cards ==
    Displaying =>
        /\ screen.status = "results"
        /\ Len(screen.cards) =
             Cardinality({ j \in 1..Len(classification_results) :
                             \/ widgets.filter_type = All
                             \/ classification_results[j].classification
                                   = widgets.filter_type })
        /\ \A i \in 1..Len(screen.cards) :
             /\ \E j \in 1..Len(classification_results) :
                   classification_results[j] = screen.cards[i].result
             /\ \/ widgets.filter_type = All
                \/ screen.cards[i].result.classification = widgets.filter_type
             /\ screen.cards[i].figure_data
                   = extracted_figures[screen.cards[i].result.figure_id + 1]
             /\ screen.cards[i].figure_data.page = screen.cards[i].result.page
        /\ \A i, j \in 1..Len(screen.cards) :
             i < j =>
               /\ screen.cards[i].result # screen.cards[j].result
               /\ ~Before(widgets.sort_by, screen.cards[j].result, screen.cards[i].result)

\* C9: get_confidence returns the confidence of the record the most recent
\* classify_figure call returned, and 0.0 before any call.
C9_LastConfidence ==
    GetConfidence(confidence_score)
        = IF last_call.made THEN last_call.ret.confidence ELSE Num(0)

C9_Witness ==
    /\ ncalls >= 2
    /\ last_call.made
    /\ IsFailure(last_call.resp)
    /\ GetConfidence(confidence_score) = Num(30)

\* C10: processing_complete implies that extracted_figures is non-empty and
\* classification_results has its length; a process_pdf run that fails with
\* an exception leaves the session-state fields as they were; display_results
\* never divides by zero.  Stated of both ends of every step.
C10_CompleteSession ==
    [][ /\ processing_complete =>
             /\ Len(extracted_figures) > 0
             /\ Len(classification_results) = Len(extracted_figures)
        /\ processing_complete' =>
             /\ Len(extracted_figures') > 0
             /\ Len(classification_results') = Len(extracted_figures')
        /\ screen.status # "ZeroDivisionError"
        /\ screen'.status # "ZeroDivisionError"
        /\ run'.outcome = "error" => UNCHANGED session_vars ]_vars

C10_Witness ==
    /\ run.outcome = "error"
    /\ processing_complete
    /\ Len(classification_results) = 2
    /\ screen.status = "results"

\* C11: when process_pdf or process_pdf_from_url has finished, on the success
\* path (ending in st.rerun), the no-figures path and every exception path,
\* neither the temporary copy written by process_pdf nor the file returned by
\* download_pdf_from_url is left on disk.
C11_NoTempFileLeft ==
    run.handler \in {"process_pdf", "process_pdf_from_url"} => run.files = {}

=============================================================================
